---- MODULE Spec2Model ----
(***************************************************************************)
(* raspautomator: the task orchestration and lifecycle engine.             *)
(*                                                                         *)
(*   src/src/orchestrator/orchestrator.py  Orchestrator.run and the crash  *)
(*                                         wrapper robust_task_generator   *)
(*   src/src/task/task.py                  Task.__init__, Task.run,        *)
(*                                         calculate_next_run and          *)
(*                                         _execute_task_with_monitoring   *)
(*   src/src/config_watcher.py             TaskRegistry and the trigger    *)
(*                                         reload handler                  *)
(*                                                                         *)
(* One Supervisor (a pyRTOS generator) per job.  Between two yields a      *)
(* generator runs without any other generator running (cur holds the job   *)
(* that has the scheduler thread), but the watchdog observer thread, the   *)
(* job body threads, the user and the clock are real concurrency and       *)
(* interleave with every read of self.config: each read is its own step.   *)
(* Time is a discrete clock; a generator segment takes no clock time, the  *)
(* blocking join of the monitor does.                                      *)
(***************************************************************************)
EXTENDS Integers, FiniteSets, Sequences, TLC

\* ------------------------------------------------------------------ bounds
MaxTime == 12          \* clock horizon (ticks, one tick = one second)
MaxTimeTwo == 6       \* clock horizon of the two-job specification
TicksPerDay == 3      \* length of a calendar day in ticks (scaled down)
MaxLeak == 1          \* abandoned body threads tracked per job
HorizonDays == 8           \* days scanned for the least matching timestamp
MaxDateDays == 9      \* days after which datetime arithmetic overflows

\* ------------------------------------------------------- program constants
BackoffDelay == 5     \* yield [pyRTOS.timeout(5)] after a crash
GracePeriod == 5      \* task_thread.join(timeout=5)
IdlePoll == 10        \* sleep_time = 10 when both flags are off
PollInterval == 1     \* yield [pyRTOS.timeout(1)] in the monitor loop
DaysPerWeek == 7      \* strftime("%A") has seven values

Jobs == {"alarm", "sounds"}
None == "none"
Fault == -1           \* an exception raised instead of a value
AllDays == 0 .. (DaysPerWeek - 1)

\* --------------------------------------------------- trigger.json contents
\* A parsed trigger.json.  fmt = "legacy" carries days_of_week/time_of_day;
\* fmt = "new" is what the editor's save_config writes: a "schedules" list
\* and no days_of_week/time_of_day keys (reading them raises KeyError).
\* max_duration = 0 stands for an absent key (config.get gives None).
Cfg(f, s, t, tod, days, ti, md) ==
    [fmt |-> f, schedule_on |-> s, timeout_on |-> t, time_of_day |-> tod,
     days_of_week |-> days, timeout_interval |-> ti, max_duration |-> md]

V_timeout == Cfg("legacy", FALSE, TRUE, 0, AllDays, 2, 1)
V_sched1 == Cfg("legacy", TRUE, FALSE, 1, AllDays, 2, 1)
V_sched2 == Cfg("legacy", TRUE, TRUE, 2, AllDays, 3, 0)
V_off == Cfg("legacy", FALSE, FALSE, 1, {}, 3, 1)
V_new == Cfg("new", TRUE, FALSE, 0, {}, 2, 0)

Versions == {V_timeout, V_sched1, V_sched2, V_off, V_new}
\* a file json.load cannot parse
Malformed == Cfg("malformed", FALSE, FALSE, 0, {}, 0, 0)
\* no Task instance constructed yet
NoCfg == Cfg("none", FALSE, FALSE, 0, {}, 0, 0)
FileContents == Versions \cup {Malformed}
\* valid JSON whose top level is no object, e.g. [1, 2]
NotObject == Cfg("list", FALSE, FALSE, 0, {}, 0, 0)

\* Contents of a job's config.json (the behaviour file): the one the job
\* ships with and an edited one.
Shipped == "shipped"
BehaviorContents == {Shipped, "edited"}

VARIABLES
    task_files,   \* Orchestrator.task_files: the jobs found at startup
    now,          \* the wall clock
    schedUp,      \* pyRTOS.start() has not been left by an exception
    cur,          \* the job whose generator holds the scheduler thread
    allMarker,    \* tasks/all.terminate exists
    marker,       \* marker[j]: tasks/<j>.terminate exists
    disk,         \* disk[j]: content of tasks/<j>/trigger.json
    entry,        \* what became of the call of the Orchestrator's entry point
    bdisk,        \* bdisk[j]: content of tasks/<j>/config.json
    loaded,       \* loaded[j]: what the singleton of job j's module holds
    used,         \* used[j]: the values the body of the execution works with
    pc,           \* pc[j]: where job j's generator stands
    config,       \* config[j]: self.config of the job's newest Task
    reg,          \* reg[j]: which instance TaskRegistry._tasks[j] refers to
    next_run,     \* next_run[j]: local next_run of Task.run
    nowl,         \* nowl[j]: local now of the current pass (line 197)
    wake,         \* wake[j]: when the current pyRTOS.timeout/join elapses
    branch,       \* branch[j]: which branch of line 205 started the execution
    start_time,   \* start_time[j] of the monitor
    max_dur,      \* max_duration[j] as read by the monitor (line 104)
    stop,         \* stop[j]: self.stop_event of the newest Task is set
    thr,          \* thr[j]: the thread the monitor watches
    leaked,       \* leaked[j]: alive threads the monitor gave up on
    orphans,      \* orphans[j]: alive threads of discarded Task instances
    terminated,   \* terminated[j]: what the monitor is about to return
    nrCal         \* nrCal[j]: next_run[j] came out of the calendar loop

vars == <<task_files, now, schedUp, cur, allMarker, marker, disk, entry, bdisk, loaded,
          used,
          pc, config, reg,
          next_run, nowl, wake, branch, start_time, max_dur, stop, thr, leaked,
          orphans, terminated, nrCal>>

\* What no step of Task.run or of the monitor writes.
envVars == <<allMarker, marker, disk, entry, bdisk, loaded, used>>
supVars == <<pc, config, reg, next_run, nowl, wake, branch, start_time, max_dur,
             stop, thr, leaked, orphans, terminated, nrCal>>


\* ------------------------------------------------------------- time helpers
DayOf(t) == t \div TicksPerDay
WeekdayOf(t) == DayOf(t) % DaysPerWeek
TimeOfDay(t) == t % TicksPerDay
Min(a, b) == IF a < b THEN a ELSE b

\* ---------------------------------------------------------- Trigger Evaluator
\* The while loop of calculate_next_run (lines 54-55), k days already added.
\* With no matching weekday the loop only ends when `next_run += timedelta`
\* leaves the range of datetime (OverflowError).
RECURSIVE AdvanceDays(_, _, _, _)
AdvanceDays(c, t, nr, k) ==
    IF nr <= t \/ WeekdayOf(nr) \notin c.days_of_week
    THEN IF k >= MaxDateDays THEN Fault
         ELSE AdvanceDays(c, t, nr + TicksPerDay, k + 1)
    ELSE nr

RECURSIVE AdvanceDays_Inclusive(_, _, _, _)
AdvanceDays_Inclusive(c, t, nr, k) ==
    IF nr < t \/ WeekdayOf(nr) \notin c.days_of_week
    THEN IF k >= MaxDateDays THEN Fault
         ELSE AdvanceDays_Inclusive(c, t, nr + TicksPerDay, k + 1)
    ELSE nr

calculate_next_run_Inclusive(c, t) ==
    IF ~c.schedule_on THEN t
    ELSE IF c.fmt # "legacy" THEN Fault
    ELSE AdvanceDays_Inclusive(c, t, DayOf(t) * TicksPerDay + c.time_of_day, 0)

calculate_next_run_IgnoresFlag(c, t) ==
    IF c.fmt # "legacy" THEN Fault
    ELSE AdvanceDays(c, t, DayOf(t) * TicksPerDay + c.time_of_day, 0)

\* self.config[...] can be evaluated: the config is a dict.  On a JSON
\* value of another type (a list, a string, a number) the subscript raises
\* TypeError.
Readable(c) == c.fmt # "list"

\* Task.calculate_next_run with datetime.now() = t: a timestamp, or Fault
\* (TypeError on a config that is no dict, KeyError 'time_of_day' on a file
\* in the new format, OverflowError).
calculate_next_run(c, t) ==
    IF ~Readable(c) THEN Fault
    ELSE IF ~c.schedule_on THEN t
    ELSE IF c.fmt # "legacy" THEN Fault
    ELSE AdvanceDays(c, t, DayOf(t) * TicksPerDay + c.time_of_day, 0)

\* --------------------------------------------------------------- scheduling
\* Job j's generator is inside a segment (between two yields).
Holds(j) == schedUp /\ cur = j
\* Job j's generator is suspended at a yield whose condition has elapsed and
\* the scheduler thread is free to resume it.
CanResume(j) == schedUp /\ cur = None /\ now >= wake[j]

\* Job j's generator is suspended at a yield.
Resumable(j) == pc[j] \in {"new", "backoff", "top", "mon", "dbg_new", "dbg_top"}

ThreadsAlive(j) == (IF thr[j] = "alive" THEN 1 ELSE 0) + leaked[j] + orphans[j]

\* ---------------------------------------------------------------------- Init
\* The state after Orchestrator.run has removed the *.terminate files and
\* started the ConfigWatcher (lines 29-36), before the first add_task.
InitOf(found, contents) ==
    /\ task_files = found
    /\ now = 0
    /\ schedUp = TRUE
    /\ cur = None
    /\ allMarker = FALSE
    /\ marker = [j \in Jobs |-> FALSE]
    /\ disk \in [Jobs -> contents \cup {NoCfg}]
    /\ \A j \in Jobs : disk[j] = NoCfg <=> j \notin found
    /\ entry = "running"
    /\ bdisk = [j \in Jobs |-> Shipped]
    /\ loaded = [j \in Jobs |-> None]
    /\ used = [j \in Jobs |-> None]
    /\ pc = [j \in Jobs |-> "new"]
    /\ config = [j \in Jobs |-> NoCfg]
    /\ reg = [j \in Jobs |-> "none"]
    /\ next_run = [j \in Jobs |-> 0]
    /\ nowl = [j \in Jobs |-> 0]
    /\ wake = [j \in Jobs |-> 0]
    /\ branch = [j \in Jobs |-> None]
    /\ start_time = [j \in Jobs |-> 0]
    /\ max_dur = [j \in Jobs |-> 0]
    /\ stop = [j \in Jobs |-> FALSE]
    /\ thr = [j \in Jobs |-> None]
    /\ leaked = [j \in Jobs |-> 0]
    /\ orphans = [j \in Jobs |-> 0]
    /\ terminated = [j \in Jobs |-> None]
    /\ nrCal = [j \in Jobs |-> FALSE]

Init == InitOf({"alarm"}, Versions)

\* -------------------------------------------------------------- environment
\* One second passes.  The scheduler loop turns ten times a second, so a
\* generator whose wait has elapsed is resumed before the next tick; a
\* generator inside a segment finishes it within the tick.  Inside join the
\* scheduler thread stays until the body thread ends or the timeout is over.
Tick(limit) ==
    /\ schedUp
    /\ now < limit
    /\ cur # None => pc[cur] = "join" /\ thr[cur] = "alive" /\ now < wake[cur]
    /\ cur = None => \A j \in task_files : Resumable(j) => now < wake[j]
    /\ now' = now + 1
    /\ UNCHANGED <<task_files, schedUp, cur, envVars, supVars>>

\* The user (or the editor's terminate button) creates tasks/<j>.terminate.
CreateMarker(j) ==
    /\ schedUp
    /\ ~marker[j]
    /\ marker' = [marker EXCEPT ![j] = TRUE]
    /\ UNCHANGED <<task_files, now, schedUp, cur, allMarker, disk, bdisk, entry, loaded, used,
                   supVars>>

CreateAllMarker ==
    /\ schedUp
    /\ ~allMarker
    /\ allMarker' = TRUE
    /\ UNCHANGED <<task_files, now, schedUp, cur, marker, disk, bdisk, entry, loaded, used,
                   supVars>>

\* A job body thread ends: thread_loop returns (by itself or because it saw
\* the stop event) or raises.
BodyExit(j, how) ==
    /\ schedUp
    /\ thr[j] = "alive"
    /\ thr' = [thr EXCEPT ![j] = how]
    /\ UNCHANGED <<task_files, now, schedUp, cur, envVars, pc, config, reg, next_run, nowl,
                   wake, branch, start_time, max_dur, stop, leaked, orphans,
                   terminated, nrCal>>

\* An abandoned thread ends.  A count of MaxLeak stands for "MaxLeak or more".
LeakedExit(j) ==
    /\ schedUp
    /\ leaked[j] > 0
    /\ \/ leaked' = [leaked EXCEPT ![j] = @ - 1]
       \/ leaked[j] = MaxLeak /\ leaked' = leaked
    /\ UNCHANGED <<task_files, now, schedUp, cur, envVars, pc, config, reg, next_run, nowl,
                   wake, branch, start_time, max_dur, stop, thr, orphans,
                   terminated, nrCal>>

OrphanExit(j) ==
    /\ schedUp
    /\ orphans[j] > 0
    /\ \/ orphans' = [orphans EXCEPT ![j] = @ - 1]
       \/ orphans[j] = MaxLeak /\ orphans' = orphans
    /\ UNCHANGED <<task_files, now, schedUp, cur, envVars, pc, config, reg, next_run, nowl,
                   wake, branch, start_time, max_dur, stop, thr, leaked,
                   terminated, nrCal>>

\* ------------------------------------------------------------ Config Reloader
\* json.load(f) of lines 70-71 succeeds (no JSONDecodeError, line 96).
Parses_Always(f) == TRUE
Parses(f) == f # Malformed

\* Line 78, task_instance.config = new_config: the config after a reload.
Reloaded_Merge(old, new) ==
    [old EXCEPT !.schedule_on = new.schedule_on, !.timeout_on = new.timeout_on]
Reloaded(old, new) == new

ReloadTrigger_Recomputes(j, f) ==
    /\ schedUp
    /\ disk' = [disk EXCEPT ![j] = f]
    /\ IF f # Malformed /\ reg[j] = "cur"
       THEN /\ config' = [config EXCEPT ![j] = f]
            /\ next_run' = [next_run EXCEPT ![j] = calculate_next_run(f, now)]
       ELSE UNCHANGED <<config, next_run>>
    /\ UNCHANGED <<task_files, now, schedUp, cur, allMarker, marker, bdisk, entry, loaded, used,
                   pc, reg, nowl, wake, branch, start_time, max_dur, stop,
                   thr, leaked, orphans, terminated, nrCal>>

ReloadTrigger_LateBinds(j, f) ==
    /\ schedUp
    /\ disk' = [disk EXCEPT ![j] = f]
    /\ IF f # Malformed /\ reg[j] # "old"
       THEN /\ config' = [config EXCEPT ![j] = f]
            /\ reg' = [reg EXCEPT ![j] = "cur"]
       ELSE UNCHANGED <<config, reg>>
    /\ UNCHANGED <<task_files, now, schedUp, cur, allMarker, marker, bdisk, entry, loaded, used,
                   pc, next_run, nowl, wake, branch, start_time, max_dur, stop,
                   thr, leaked, orphans, terminated, nrCal>>

\* ConfigFileHandler.on_modified -> _reload_trigger_config for job j's
\* trigger.json, whose content is f when the handler opens it (the editor,
\* or a user, has written it).  A file that does not parse, or a job that is
\* not in the registry, changes nothing; a reload that reaches a discarded
\* Task instance changes only that instance.
ReloadTrigger(j, f) ==
    /\ schedUp
    /\ disk' = [disk EXCEPT ![j] = f]
    /\ IF Parses(f) /\ reg[j] = "cur"
       THEN config' = [config EXCEPT ![j] = Reloaded(@, f)]
       ELSE config' = config
    /\ UNCHANGED <<task_files, now, schedUp, cur, allMarker, marker, bdisk, entry, loaded, used,
                   pc, reg, next_run, nowl, wake, branch, start_time, max_dur, stop,
                   thr, leaked, orphans, terminated, nrCal>>

\* ConfigFileHandler.on_modified -> _reload_task_config for job j's
\* config.json, whose content is v when the handler opens it: the handler
\* loads the file, logs "Changes will apply on next task execution" and
\* reaches no Task and no job object.
ReloadTaskConfig(j, v) ==
    /\ schedUp
    /\ bdisk' = [bdisk EXCEPT ![j] = v]
    /\ UNCHANGED <<task_files, now, schedUp, cur, allMarker, marker, disk, entry, loaded, used,
                   supVars>>

\* --------------------------------------------------------------- job bodies
\* The jobs whose player object reads config.json only when the singleton is
\* first constructed: SleepSoundsPlayer.__init__ returns at once when
\* `initialized` is set.  RadioPlayer.__init__ calls load_config every time.
LoadsOnce == {"sounds"}

\* thread_loop -> main -> the player's constructor, at the start of an
\* execution: the values the body works with.
BodyLoadsConfig(j) ==
    /\ schedUp
    /\ thr[j] = "alive"
    /\ used[j] = None
    /\ IF j \in LoadsOnce /\ loaded[j] # None
       THEN /\ used' = [used EXCEPT ![j] = loaded[j]]
            /\ UNCHANGED loaded
       ELSE /\ loaded' = [loaded EXCEPT ![j] = bdisk[j]]
            /\ used' = [used EXCEPT ![j] = bdisk[j]]
    /\ UNCHANGED <<task_files, now, schedUp, cur, allMarker, marker, disk, bdisk, entry, supVars>>

\* ------------------------------------------------- crash wrapper and Task()
\* TaskRegistry._tasks[name] while a new Task of that name is being built:
\* nothing removes the entry (TaskRegistry has register, get and get_all), so
\* until line 28 of the new Task it refers to the previous instance.
Superseded_Removed(r) == "none"
Superseded(r) == IF r = "cur" THEN "old" ELSE r

\* The process ends: an exception left the generator outside the try of
\* robust_task_generator, so it leaves pyRTOS and Orchestrator.run (whose
\* finally only stops the watcher).  The daemon body threads die with it.
ProcessDies ==
    /\ schedUp' = FALSE
    /\ cur' = None
    /\ thr' = [k \in Jobs |-> IF thr[k] = "alive" THEN None ELSE thr[k]]
    /\ leaked' = [k \in Jobs |-> 0]
    /\ orphans' = [k \in Jobs |-> 0]

\* robust_task_generator line 99 and Task.__init__ lines 14-25: at add_task
\* or after the backoff delay, build a fresh Task; import_task_module executes
\* the job's module anew (a new module object, so a singleton class that has
\* no instance yet) and load_trigger_config reads trigger.json.  The call is
\* outside the try block.
LoadTriggerConfig(j) ==
    /\ pc[j] \in {"new", "backoff"}
    /\ CanResume(j)
    /\ IF disk[j] = Malformed
       THEN /\ ProcessDies
            /\ UNCHANGED <<pc, config, reg, stop, loaded>>
       ELSE /\ loaded' = [loaded EXCEPT ![j] = None]
            /\ config' = [config EXCEPT ![j] = disk[j]]
            /\ reg' = [reg EXCEPT ![j] = Superseded(@)]
            /\ stop' = [stop EXCEPT ![j] = FALSE]
            /\ orphans' = [orphans EXCEPT ![j] = Min(@ + leaked[j], MaxLeak)]
            /\ leaked' = [leaked EXCEPT ![j] = 0]
            /\ pc' = [pc EXCEPT ![j] = "register"]
            /\ cur' = j
            /\ UNCHANGED <<schedUp, thr>>
    /\ UNCHANGED <<task_files, now, allMarker, marker, disk, bdisk, entry, used, next_run, nowl,
                   wake, branch, start_time, max_dur, terminated, nrCal>>

Register_KeepsFirst(j) ==
    /\ pc[j] = "register"
    /\ Holds(j)
    /\ reg' = [reg EXCEPT ![j] = IF @ = "none" THEN "cur" ELSE @]
    /\ pc' = [pc EXCEPT ![j] = "calc_init"]
    /\ UNCHANGED <<task_files, now, schedUp, cur, envVars, config, next_run, nowl, wake,
                   branch, start_time, max_dur, stop, thr, leaked, orphans,
                   terminated, nrCal>>

\* Task.__init__ line 28: TaskRegistry.register(self.task_name, self).
Register(j) ==
    /\ pc[j] = "register"
    /\ Holds(j)
    /\ reg' = [reg EXCEPT ![j] = "cur"]
    /\ pc' = [pc EXCEPT ![j] = "calc_init"]
    /\ UNCHANGED <<task_files, now, schedUp, cur, envVars, config, next_run, nowl, wake,
                   branch, start_time, max_dur, stop, thr, leaked, orphans,
                   terminated, nrCal>>

\* The except branch of robust_task_generator (lines 103-108): an exception
\* raised inside Task.run is logged and the generator yields timeout(5).
\* Gives the new pc, wake and cur of job j.
Backoff_Escalating(j) ==
    /\ pc' = [pc EXCEPT ![j] = "backoff"]
    /\ wake' = [wake EXCEPT ![j] = now + 2 * BackoffDelay]
    /\ cur' = None
Backoff(j) ==
    /\ pc' = [pc EXCEPT ![j] = "backoff"]
    /\ wake' = [wake EXCEPT ![j] = now + BackoffDelay]
    /\ cur' = None

\* A bare `yield` or `yield [pyRTOS.timeout(d)]` that resumes at the top of
\* the while loop of Task.run (line 196).
YieldToTop(j, d) ==
    /\ pc' = [pc EXCEPT ![j] = "top"]
    /\ wake' = [wake EXCEPT ![j] = now + d]
    /\ cur' = None

\* Task.run lines 193-194: the first calculate_next_run and the bare yield.
CalcInit(j) ==
    /\ pc[j] = "calc_init"
    /\ Holds(j)
    /\ LET nr == calculate_next_run(config[j], now) IN
       IF nr = Fault
       THEN /\ Backoff(j)
            /\ UNCHANGED <<next_run, nrCal>>
       ELSE /\ YieldToTop(j, 0)
            /\ next_run' = [next_run EXCEPT ![j] = nr]
            /\ nrCal' = [nrCal EXCEPT ![j] =
                   config[j].schedule_on]
    /\ UNCHANGED <<task_files, now, schedUp, envVars, config, reg, nowl, branch, start_time,
                   max_dur, stop, thr, leaked, orphans, terminated>>

\* ------------------------------------------------------------------ Task.run
\* A read of self.config['...'] in the loop of Task.run (lines 200, 205, 215,
\* 217, 226, 228) raises because the config is no dict; the wrapper catches
\* it (orchestrator.py 103-108).
ReadFaults(j) ==
    /\ pc[j] \in {"top", "chk_timeout", "chk_sched", "post_sched", "set_next_timeout",
                  "chk_repeat", "wait_interval"}
    /\ IF pc[j] = "top" THEN CanResume(j) ELSE Holds(j)
    /\ ~Readable(config[j])
    /\ Backoff(j)
    /\ nowl' = [nowl EXCEPT ![j] = 0]
    /\ branch' = [branch EXCEPT ![j] = None]
    /\ UNCHANGED <<task_files, now, schedUp, envVars, config, reg, next_run, start_time,
                   max_dur, stop, thr, leaked, orphans, terminated, nrCal>>

\* Lines 197 and 200, first operand: now = datetime.now() and the read of
\* self.config['schedule_on'].
Top(j) ==
    /\ pc[j] = "top"
    /\ CanResume(j)
    /\ Readable(config[j])
    /\ cur' = j
    /\ nowl' = [nowl EXCEPT ![j] = now]
    /\ pc' = [pc EXCEPT ![j] =
           IF config[j].schedule_on = FALSE THEN "chk_timeout" ELSE "chk_sched"]
    /\ UNCHANGED <<task_files, now, schedUp, envVars, config, reg, next_run, wake, branch,
                   start_time, max_dur, stop, thr, leaked, orphans, terminated,
                   nrCal>>

\* Line 200, second operand: self.config['timeout_on']==False.
TimeoutOff(c) == c.timeout_on = FALSE

ChkTimeout_NoRepoll(j) ==
    /\ pc[j] = "chk_timeout"
    /\ Holds(j)
    /\ IF TimeoutOff(config[j])
       THEN /\ YieldToTop(j, 2 * IdlePoll)
            /\ nowl' = [nowl EXCEPT ![j] = 0]
       ELSE /\ pc' = [pc EXCEPT ![j] = "chk_sched"]
            /\ UNCHANGED <<wake, cur, nowl>>
    /\ UNCHANGED <<task_files, now, schedUp, envVars, config, reg, next_run, branch,
                   start_time, max_dur, stop, thr, leaked, orphans, terminated,
                   nrCal>>
\* Line 200, second operand, and lines 201-203: self.config['timeout_on'].
ChkTimeout(j) ==
    /\ pc[j] = "chk_timeout"
    /\ Holds(j)
    /\ Readable(config[j])
    /\ IF TimeoutOff(config[j])
       THEN /\ YieldToTop(j, IdlePoll)
            /\ nowl' = [nowl EXCEPT ![j] = 0]
       ELSE /\ pc' = [pc EXCEPT ![j] = "chk_sched"]
            /\ UNCHANGED <<wake, cur, nowl>>
    /\ UNCHANGED <<task_files, now, schedUp, envVars, config, reg, next_run, branch,
                   start_time, max_dur, stop, thr, leaked, orphans, terminated,
                   nrCal>>

\* _execute_task_with_monitoring lines 91-105: clear the stop event, start the
\* body thread, read max_duration and take start_time.  The monitor loop
\* follows without a yield.
StartExec(j, b) ==
    /\ stop' = [stop EXCEPT ![j] = FALSE]
    /\ thr' = [thr EXCEPT ![j] = "alive"]
    /\ max_dur' = [max_dur EXCEPT ![j] = config[j].max_duration]
    /\ start_time' = [start_time EXCEPT ![j] = now]
    /\ branch' = [branch EXCEPT ![j] = b]
    /\ used' = [used EXCEPT ![j] = None]
    /\ pc' = [pc EXCEPT ![j] = "poll"]

\* Lines 205-211 and 221-223: self.config['schedule_on'], the wait until
\* next_run, or the start of an execution.
ChkSched(j) ==
    /\ pc[j] = "chk_sched"
    /\ Holds(j)
    /\ Readable(config[j])
    /\ IF config[j].schedule_on
       THEN IF nowl[j] < next_run[j]
            THEN /\ YieldToTop(j, next_run[j] - nowl[j])
                 /\ nowl' = [nowl EXCEPT ![j] = 0]
                 /\ UNCHANGED <<stop, thr, max_dur, start_time, branch, used>>
            ELSE /\ StartExec(j, "sched")
                 /\ UNCHANGED <<wake, cur, nowl>>
       ELSE /\ StartExec(j, "timeout")
            /\ nowl' = [nowl EXCEPT ![j] = 0]
            /\ UNCHANGED <<wake, cur>>
    /\ UNCHANGED <<task_files, now, schedUp, allMarker, marker, disk, bdisk, entry, loaded, config,
                   reg, next_run, leaked, orphans, terminated, nrCal>>


\* ------------------------------------------------------------- debug mode
\* run_task_debug lines 54-62: the walk over the tasks folder finds a
\* directory called like the requested task.  Both jobs have a directory.
Found_Always(n) == TRUE
Found(n) == n \in Jobs

\* Orchestrator.run_task_debug(n), lines 52-85: ValueError when no directory
\* is called n (debug_runner prints it and raises it again); otherwise the
\* one generator is added and pyRTOS.start() is entered.
RunTaskDebug(n) ==
    /\ entry = "idle"
    /\ IF Found(n)
       THEN /\ task_files' = {n}
            /\ pc' = [pc EXCEPT ![n] = "dbg_new"]
            /\ schedUp' = TRUE
            /\ entry' = "running"
       ELSE /\ entry' = "failed"
            /\ UNCHANGED <<task_files, pc, schedUp>>
    /\ UNCHANGED <<now, cur, allMarker, marker, disk, bdisk, loaded, used, config, reg,
                   next_run, nowl, wake, branch, start_time, max_dur, stop, thr, leaked,
                   orphans, terminated, nrCal>>

\* debug_wrapper of run_task_debug (orchestrator.py 66-70): Task(task_file,
\* debug=True) loads trigger.json and registers, then Task.run is entered.
\* The constructor call is outside the try block.
DebugTask(j) ==
    /\ pc[j] = "dbg_new"
    /\ CanResume(j)
    /\ IF disk[j] = Malformed
       THEN /\ ProcessDies
            /\ UNCHANGED <<pc, config, reg>>
       ELSE /\ config' = [config EXCEPT ![j] = disk[j]]
            /\ reg' = [reg EXCEPT ![j] = "cur"]
            /\ pc' = [pc EXCEPT ![j] = "dbg_top"]
            /\ cur' = j
            /\ UNCHANGED <<schedUp, thr, leaked, orphans>>
    /\ UNCHANGED <<task_files, now, envVars, next_run, nowl, wake, branch, start_time,
                   max_dur, stop, terminated, nrCal>>

\* Task.run lines 186-189 in debug mode: the next execution starts, at once
\* after the Task was built and after each timeout(1).
DebugStart(j) ==
    /\ pc[j] = "dbg_top"
    /\ Holds(j) \/ CanResume(j)
    /\ StartExec(j, "debug")
    /\ cur' = j
    /\ UNCHANGED <<task_files, now, schedUp, allMarker, marker, disk, bdisk, entry, loaded, config,
                   reg, next_run, nowl, wake, leaked, orphans, terminated, nrCal>>

\* Task.run line 190 in debug mode: yield [pyRTOS.timeout(1)], whatever the
\* monitor returned.
DebugWait(j) ==
    /\ pc[j] = "dbg_wait"
    /\ Holds(j)
    /\ pc' = [pc EXCEPT ![j] = "dbg_top"]
    /\ wake' = [wake EXCEPT ![j] = now + PollInterval]
    /\ cur' = None
    /\ branch' = [branch EXCEPT ![j] = None]
    /\ UNCHANGED <<task_files, now, schedUp, envVars, config, reg, next_run, nowl,
                   start_time, max_dur, stop, thr, leaked, orphans, terminated, nrCal>>

\* -------------------------------------------------------- Execution Monitor
\* Lines 129-132: the job's own terminate file or all.terminate exists.
MarkerSeen_AnyJob(j) == allMarker \/ \E k \in Jobs : marker[k]
MarkerSeen(j) == marker[j] \/ allMarker
\* Line 155: `if max_duration and elapsed > max_duration`.
MaxDurExceeded_AtLimit(j) == max_dur[j] > 0 /\ now - start_time[j] >= max_dur[j]
MaxDurExceeded_ZeroCounts(j) == now - start_time[j] > max_dur[j]
MaxDurExceeded(j) == max_dur[j] > 0 /\ now - start_time[j] > max_dur[j]

\* What the monitor returns: True (line 152) after a marker, False (line
\* 175) after max_duration.
MonitorReturn_AlwaysTrue(reason) == "yes"
MonitorReturn(reason) == IF reason = "marker" THEN "yes" ELSE "no"

\* Lines 212-213 and 224-225: `if terminated: return`.  The loop of debug
\* mode (lines 187-190) does not look at what the monitor returned.
RunReturns_Never(j) == FALSE
RunReturns(j) == terminated[j] = "yes" /\ branch[j] # "debug"

\* Where Task.run continues after the monitor returned False: line 215 in
\* the schedule branch, line 227 in the else branch, line 190 in debug mode.
AfterExec(b) ==
    IF b = "sched" THEN "post_sched"
    ELSE IF b = "debug" THEN "dbg_wait"
    ELSE "chk_repeat"

\* One pass of the monitor loop, lines 120-178, up to the join, the return or
\* the yield.  It runs right after the thread start and after every
\* timeout(1).
Poll(j) ==
    /\ \/ pc[j] = "poll" /\ Holds(j)
       \/ pc[j] = "mon" /\ CanResume(j)
    /\ IF thr[j] # "alive"
       THEN /\ pc' = [pc EXCEPT ![j] = AfterExec(branch[j])]
            /\ cur' = j
            /\ thr' = [thr EXCEPT ![j] = None]
            /\ start_time' = [start_time EXCEPT ![j] = 0]
            /\ max_dur' = [max_dur EXCEPT ![j] = 0]
            /\ wake' = [wake EXCEPT ![j] = 0]
            /\ UNCHANGED <<stop, terminated>>
       ELSE IF MarkerSeen(j)
       THEN /\ stop' = [stop EXCEPT ![j] = TRUE]
            /\ terminated' = [terminated EXCEPT ![j] = MonitorReturn("marker")]
            /\ pc' = [pc EXCEPT ![j] = "join"]
            /\ wake' = [wake EXCEPT ![j] = now + GracePeriod]
            /\ cur' = j
            /\ start_time' = [start_time EXCEPT ![j] = 0]
            /\ max_dur' = [max_dur EXCEPT ![j] = 0]
            /\ UNCHANGED thr
       ELSE IF MaxDurExceeded(j)
       THEN /\ stop' = [stop EXCEPT ![j] = TRUE]
            /\ terminated' = [terminated EXCEPT ![j] = MonitorReturn("maxdur")]
            /\ pc' = [pc EXCEPT ![j] = "join"]
            /\ wake' = [wake EXCEPT ![j] = now + GracePeriod]
            /\ cur' = j
            /\ start_time' = [start_time EXCEPT ![j] = 0]
            /\ max_dur' = [max_dur EXCEPT ![j] = 0]
            /\ UNCHANGED thr
       ELSE /\ pc' = [pc EXCEPT ![j] = "mon"]
            /\ wake' = [wake EXCEPT ![j] = now + PollInterval]
            /\ cur' = None
            /\ UNCHANGED <<stop, terminated, start_time, max_dur, thr>>
    /\ UNCHANGED <<task_files, now, schedUp, envVars, config, reg, next_run, nowl, branch,
                   leaked, orphans, nrCal>>

\* Lines 144 and 167, task_thread.join(timeout=5), is over: the thread has
\* ended or the timeout has run out.
JoinOver_WaitsForThread(j) == thr[j] # "alive"
JoinOver(j) == thr[j] # "alive" \/ now >= wake[j]

\* task_thread.join(timeout=5) returns (lines 144-152 and 167-175): the
\* thread ended or the grace period ran out.  Until then the generator has
\* not yielded: the scheduler thread is inside join.  `return True` ends
\* Task.run and with it the generator (the else: break of the wrapper).
JoinEnd(j) ==
    /\ pc[j] = "join"
    /\ Holds(j)
    /\ JoinOver(j)
    /\ leaked' = [leaked EXCEPT ![j] =
           IF thr[j] = "alive" THEN Min(@ + 1, MaxLeak) ELSE @]
    /\ thr' = [thr EXCEPT ![j] = None]
    /\ IF RunReturns(j)
       THEN /\ pc' = [pc EXCEPT ![j] = "done"]
            /\ cur' = None
            /\ nowl' = [nowl EXCEPT ![j] = 0]
            /\ branch' = [branch EXCEPT ![j] = None]
       ELSE /\ pc' = [pc EXCEPT ![j] = AfterExec(branch[j])]
            /\ UNCHANGED <<cur, nowl, branch>>
    /\ terminated' = [terminated EXCEPT ![j] = None]
    /\ wake' = [wake EXCEPT ![j] = 0]
    /\ UNCHANGED <<task_files, now, schedUp, envVars, config, reg, next_run, start_time,
                   max_dur, stop, orphans, nrCal>>

\* ------------------------------------------------- Task.run after execution
\* Line 215: self.config['timeout_on'] in the schedule branch.
PostSched_Recalculates(j) ==
    /\ pc[j] = "post_sched"
    /\ Holds(j)
    /\ pc' = [pc EXCEPT ![j] = "calc_next"]
    /\ UNCHANGED <<task_files, now, schedUp, cur, envVars, config, reg, next_run, nowl, wake,
                   branch, start_time, max_dur, stop, thr, leaked, orphans,
                   terminated, nrCal>>
PostSched(j) ==
    /\ pc[j] = "post_sched"
    /\ Holds(j)
    /\ Readable(config[j])
    /\ pc' = [pc EXCEPT ![j] =
           IF config[j].timeout_on THEN "set_next_timeout" ELSE "calc_next"]
    /\ UNCHANGED <<task_files, now, schedUp, cur, envVars, config, reg, next_run, nowl, wake,
                   branch, start_time, max_dur, stop, thr, leaked, orphans,
                   terminated, nrCal>>

\* Line 217: next_run = now + timedelta(seconds=timeout_interval), with the
\* now taken at the top of this pass, before the execution.
SetNextTimeout(j) ==
    /\ pc[j] = "set_next_timeout"
    /\ Holds(j)
    /\ Readable(config[j])
    /\ next_run' = [next_run EXCEPT ![j] = nowl[j] + config[j].timeout_interval]
    /\ nrCal' = [nrCal EXCEPT ![j] = FALSE]
    /\ pc' = [pc EXCEPT ![j] = "chk_repeat"]
    /\ UNCHANGED <<task_files, now, schedUp, cur, envVars, config, reg, nowl, wake, branch,
                   start_time, max_dur, stop, thr, leaked, orphans, terminated>>

\* Line 220: next_run = self.calculate_next_run().
CalcNext(j) ==
    /\ pc[j] = "calc_next"
    /\ Holds(j)
    /\ LET nr == calculate_next_run(config[j], now) IN
       IF nr = Fault
       THEN /\ Backoff(j)
            /\ nowl' = [nowl EXCEPT ![j] = 0]
            /\ branch' = [branch EXCEPT ![j] = None]
            /\ UNCHANGED <<next_run, nrCal>>
       ELSE /\ pc' = [pc EXCEPT ![j] = "chk_repeat"]
            /\ next_run' = [next_run EXCEPT ![j] = nr]
            /\ nrCal' = [nrCal EXCEPT ![j] =
                   config[j].schedule_on]
            /\ UNCHANGED <<wake, cur, nowl, branch>>
    /\ UNCHANGED <<task_files, now, schedUp, envVars, config, reg, start_time, max_dur, stop,
                   thr, leaked, orphans, terminated>>

\* Lines 227 and 230: self.config['timeout_on'], or the bare yield.
ChkRepeat_NoWait(j) ==
    /\ pc[j] = "chk_repeat"
    /\ Holds(j)
    /\ YieldToTop(j, 0)
    /\ nowl' = [nowl EXCEPT ![j] = 0]
    /\ branch' = [branch EXCEPT ![j] = None]
    /\ UNCHANGED <<task_files, now, schedUp, envVars, config, reg, next_run, start_time,
                   max_dur, stop, thr, leaked, orphans, terminated, nrCal>>
ChkRepeat(j) ==
    /\ pc[j] = "chk_repeat"
    /\ Holds(j)
    /\ Readable(config[j])
    /\ IF config[j].timeout_on
       THEN /\ pc' = [pc EXCEPT ![j] = "wait_interval"]
            /\ UNCHANGED <<wake, cur, nowl, branch>>
       ELSE /\ YieldToTop(j, 0)
            /\ nowl' = [nowl EXCEPT ![j] = 0]
            /\ branch' = [branch EXCEPT ![j] = None]
    /\ UNCHANGED <<task_files, now, schedUp, envVars, config, reg, next_run, start_time,
                   max_dur, stop, thr, leaked, orphans, terminated, nrCal>>

\* Line 228: yield [pyRTOS.timeout(self.config['timeout_interval'])].
WaitInterval(j) ==
    /\ pc[j] = "wait_interval"
    /\ Holds(j)
    /\ Readable(config[j])
    /\ YieldToTop(j, config[j].timeout_interval)
    /\ nowl' = [nowl EXCEPT ![j] = 0]
    /\ branch' = [branch EXCEPT ![j] = None]
    /\ UNCHANGED <<task_files, now, schedUp, envVars, config, reg, next_run, start_time,
                   max_dur, stop, thr, leaked, orphans, terminated, nrCal>>

\* ---------------------------------------------------------------------- Next
\* One job, every trigger file content, its own termination marker.
Next ==
    \/ Tick(MaxTime)
    \/ \E j \in task_files, f \in FileContents : ReloadTrigger(j, f)
    \/ \E j \in task_files : CreateMarker(j)
    \/ \E j \in task_files, how \in {"returned", "raised"} : BodyExit(j, how)
    \/ \E j \in task_files : LeakedExit(j)
    \/ \E j \in task_files : OrphanExit(j)
    \/ \E j \in task_files : LoadTriggerConfig(j)
    \/ \E j \in task_files : Register(j)
    \/ \E j \in task_files : CalcInit(j)
    \/ \E j \in task_files : Top(j)
    \/ \E j \in task_files : ChkTimeout(j)
    \/ \E j \in task_files : ChkSched(j)
    \/ \E j \in task_files : Poll(j)
    \/ \E j \in task_files : JoinEnd(j)
    \/ \E j \in task_files : PostSched(j)
    \/ \E j \in task_files : SetNextTimeout(j)
    \/ \E j \in task_files : CalcNext(j)
    \/ \E j \in task_files : ChkRepeat(j)
    \/ \E j \in task_files : WaitInterval(j)

Spec == Init /\ [][Next]_vars

\* Two jobs and the global marker; the trigger files start as
\* one of TwoContents and change to one of TwoWrites.  A thread of a discarded
\* Task needs max_duration, the grace period and the backoff delay to come
\* about, more than MaxTimeTwo seconds: orphans stays 0 and OrphanExit has
\* no step to take here.
TwoContents == {V_timeout, V_new}
TwoWrites == {V_timeout, V_new, Malformed}
Edited == {"alarm"}
InitTwo == InitOf(Jobs, TwoContents) /\ \A j \in Jobs \ Edited : disk[j] = V_timeout

NextTwo ==
    \/ Tick(MaxTimeTwo)
    \/ CreateAllMarker
    \/ \E j \in Edited, f \in TwoWrites : ReloadTrigger(j, f)
    \/ \E j \in task_files, how \in {"returned", "raised"} : BodyExit(j, how)
    \/ \E j \in task_files : LeakedExit(j)
    \/ \E j \in task_files : LoadTriggerConfig(j)
    \/ \E j \in task_files : Register(j)
    \/ \E j \in task_files : CalcInit(j)
    \/ \E j \in task_files : Top(j)
    \/ \E j \in task_files : ChkTimeout(j)
    \/ \E j \in task_files : ChkSched(j)
    \/ \E j \in task_files : Poll(j)
    \/ \E j \in task_files : JoinEnd(j)
    \/ \E j \in task_files : PostSched(j)
    \/ \E j \in task_files : SetNextTimeout(j)
    \/ \E j \in task_files : CalcNext(j)
    \/ \E j \in task_files : ChkRepeat(j)
    \/ \E j \in task_files : WaitInterval(j)

SpecTwo == InitTwo /\ [][NextTwo]_vars

\* Two jobs whose trigger files (timeout only, with a max_duration) are not
\* edited; each job's marker and the global marker can appear at any time.
MarkerContents == {V_timeout}
InitMarkers == InitOf(Jobs, MarkerContents)

NextMarkers ==
    \/ Tick(MaxTimeTwo)
    \/ CreateAllMarker
    \/ \E j \in task_files : CreateMarker(j)
    \/ \E j \in task_files, how \in {"returned", "raised"} : BodyExit(j, how)
    \/ \E j \in task_files : LeakedExit(j)
    \/ \E j \in task_files : LoadTriggerConfig(j)
    \/ \E j \in task_files : Register(j)
    \/ \E j \in task_files : CalcInit(j)
    \/ \E j \in task_files : Top(j)
    \/ \E j \in task_files : ChkTimeout(j)
    \/ \E j \in task_files : ChkSched(j)
    \/ \E j \in task_files : Poll(j)
    \/ \E j \in task_files : JoinEnd(j)
    \/ \E j \in task_files : ChkRepeat(j)
    \/ \E j \in task_files : WaitInterval(j)

SpecMarkers == InitMarkers /\ [][NextMarkers]_vars

\* One job whose trigger file, any of Versions, is not edited while the
\* process runs (no thread of a discarded Task comes about: a fault of
\* Task.run then precedes every execution).
NextFixed ==
    \/ Tick(MaxTime)
    \/ \E j \in task_files : CreateMarker(j)
    \/ \E j \in task_files, how \in {"returned", "raised"} : BodyExit(j, how)
    \/ \E j \in task_files : LeakedExit(j)
    \/ \E j \in task_files : LoadTriggerConfig(j)
    \/ \E j \in task_files : Register(j)
    \/ \E j \in task_files : CalcInit(j)
    \/ \E j \in task_files : Top(j)
    \/ \E j \in task_files : ChkTimeout(j)
    \/ \E j \in task_files : ChkSched(j)
    \/ \E j \in task_files : Poll(j)
    \/ \E j \in task_files : JoinEnd(j)
    \/ \E j \in task_files : PostSched(j)
    \/ \E j \in task_files : SetNextTimeout(j)
    \/ \E j \in task_files : CalcNext(j)
    \/ \E j \in task_files : ChkRepeat(j)
    \/ \E j \in task_files : WaitInterval(j)

SpecFixed == Init /\ [][NextFixed]_vars

\* One job that starts with both flags false; its trigger file is edited
\* once, to a content that enables a trigger.  The scheduler loop keeps
\* resuming generators whose wait is over and the clock keeps running.
EnableContents == {V_off}
EnableWrites == {V_timeout, V_sched2}
InitEnable == InitOf({"alarm"}, EnableContents)

Runs ==
    \/ Tick(MaxTime)
    \/ \E j \in task_files : LoadTriggerConfig(j)
    \/ \E j \in task_files : Register(j)
    \/ \E j \in task_files : CalcInit(j)
    \/ \E j \in task_files : Top(j)
    \/ \E j \in task_files : ChkTimeout(j)
    \/ \E j \in task_files : ChkSched(j)
    \/ \E j \in task_files : Poll(j)
    \/ \E j \in task_files : JoinEnd(j)
    \/ \E j \in task_files : PostSched(j)
    \/ \E j \in task_files : SetNextTimeout(j)
    \/ \E j \in task_files : ChkRepeat(j)
    \/ \E j \in task_files : WaitInterval(j)

NextEnable ==
    \/ Runs
    \/ \E j \in task_files, f \in EnableWrites :
            disk[j] \in EnableContents /\ ReloadTrigger(j, f)
    \/ \E j \in task_files, how \in {"returned", "raised"} : BodyExit(j, how)
    \/ \E j \in task_files : LeakedExit(j)

SpecEnable == InitEnable /\ [][NextEnable]_vars /\ WF_vars(Runs)

\* The Trigger Evaluator on its own: the process starts at any tick of the
\* week with a trigger file of either form, the schedule on or off, any
\* time of day and one of EvalDays; Task.run computes its first next_run
\* and makes its first pass (a wait for next_run, an idle poll, or a fault).
EvalDays == {AllDays, {0}, {2, 5}, {6}, {}}
EvalForms == {"legacy", "new"}
EvalContents ==
    {Cfg(f, s, FALSE, tod, d, 2, 0) :
        f \in EvalForms, s \in BOOLEAN, tod \in 0..(TicksPerDay - 1), d \in EvalDays}

InitEval ==
    /\ task_files = {"alarm"}
    /\ now \in 0..(DaysPerWeek * TicksPerDay - 1)
    /\ schedUp = TRUE
    /\ cur = None
    /\ allMarker = FALSE
    /\ marker = [j \in Jobs |-> FALSE]
    /\ disk \in [Jobs -> EvalContents \cup {NoCfg}]
    /\ \A j \in Jobs : disk[j] = NoCfg <=> j \notin task_files
    /\ entry = "running"
    /\ bdisk = [j \in Jobs |-> Shipped]
    /\ loaded = [j \in Jobs |-> None]
    /\ used = [j \in Jobs |-> None]
    /\ pc = [j \in Jobs |-> "new"]
    /\ config = [j \in Jobs |-> NoCfg]
    /\ reg = [j \in Jobs |-> "none"]
    /\ next_run = [j \in Jobs |-> 0]
    /\ nowl = [j \in Jobs |-> 0]
    /\ wake = [j \in Jobs |-> 0]
    /\ branch = [j \in Jobs |-> None]
    /\ start_time = [j \in Jobs |-> 0]
    /\ max_dur = [j \in Jobs |-> 0]
    /\ stop = [j \in Jobs |-> FALSE]
    /\ thr = [j \in Jobs |-> None]
    /\ leaked = [j \in Jobs |-> 0]
    /\ orphans = [j \in Jobs |-> 0]
    /\ terminated = [j \in Jobs |-> None]
    /\ nrCal = [j \in Jobs |-> FALSE]

NextEval ==
    \/ \E j \in task_files : LoadTriggerConfig(j)
    \/ \E j \in task_files : Register(j)
    \/ \E j \in task_files : CalcInit(j)
    \/ \E j \in task_files : Top(j)
    \/ \E j \in task_files : ChkTimeout(j)
    \/ \E j \in task_files : ChkSched(j)

SpecEval == InitEval /\ [][NextEval]_vars

\* Both jobs on a fixed timeout trigger without max_duration; their behaviour
\* files are edited while the process runs and the bodies end by themselves.
V_repeat == Cfg("legacy", FALSE, TRUE, 0, AllDays, 2, 0)
BehaviorTriggers == {V_repeat}
InitBehavior == InitOf(Jobs, BehaviorTriggers)

NextBehavior ==
    \/ Tick(MaxTimeTwo)
    \/ \E j \in task_files, v \in BehaviorContents : ReloadTaskConfig(j, v)
    \/ \E j \in task_files : BodyLoadsConfig(j)
    \/ \E j \in task_files : BodyExit(j, "returned")
    \/ \E j \in task_files : LoadTriggerConfig(j)
    \/ \E j \in task_files : Register(j)
    \/ \E j \in task_files : CalcInit(j)
    \/ \E j \in task_files : Top(j)
    \/ \E j \in task_files : ChkTimeout(j)
    \/ \E j \in task_files : ChkSched(j)
    \/ \E j \in task_files : Poll(j)
    \/ \E j \in task_files : ChkRepeat(j)
    \/ \E j \in task_files : WaitInterval(j)

SpecBehavior == InitBehavior /\ [][NextBehavior]_vars

\* One job whose trigger file and behaviour file are both edited while the
\* process runs; trigger files are also written in the folder of a job that
\* discover_task_files did not find at startup.
ReloadContents == {V_timeout, V_sched2}
InitReload == InitOf({"alarm"}, ReloadContents)

NextReload ==
    \/ Tick(MaxTime)
    \/ \E j \in Jobs, f \in ReloadContents : ReloadTrigger(j, f)
    \/ \E j \in task_files, v \in BehaviorContents : ReloadTaskConfig(j, v)
    \/ \E j \in task_files : BodyLoadsConfig(j)
    \/ \E j \in task_files, how \in {"returned", "raised"} : BodyExit(j, how)
    \/ \E j \in task_files : LeakedExit(j)
    \/ \E j \in task_files : LoadTriggerConfig(j)
    \/ \E j \in task_files : Register(j)
    \/ \E j \in task_files : CalcInit(j)
    \/ \E j \in task_files : Top(j)
    \/ \E j \in task_files : ChkTimeout(j)
    \/ \E j \in task_files : ChkSched(j)
    \/ \E j \in task_files : Poll(j)
    \/ \E j \in task_files : JoinEnd(j)
    \/ \E j \in task_files : PostSched(j)
    \/ \E j \in task_files : SetNextTimeout(j)
    \/ \E j \in task_files : ChkRepeat(j)
    \/ \E j \in task_files : WaitInterval(j)

SpecReload == InitReload /\ [][NextReload]_vars

\* The process started by run_task_debug for one job (orchestrator.py
\* 52-85): no terminate file is removed, so the tasks folder holds whatever
\* an earlier process or the editor left there; no ConfigWatcher is started.
\* Nobody creates a terminate file while this process runs.
DebugContents == {V_timeout, V_off, Malformed}
InitDebug ==
    /\ task_files = {"alarm"}
    /\ now = 0
    /\ schedUp = TRUE
    /\ cur = None
    /\ allMarker \in BOOLEAN
    /\ marker \in [Jobs -> BOOLEAN]
    /\ disk \in [Jobs -> DebugContents \cup {NoCfg}]
    /\ \A j \in Jobs : disk[j] = NoCfg <=> j \notin task_files
    /\ entry = "running"
    /\ bdisk = [j \in Jobs |-> Shipped]
    /\ loaded = [j \in Jobs |-> None]
    /\ used = [j \in Jobs |-> None]
    /\ pc = [j \in Jobs |-> IF j \in task_files THEN "dbg_new" ELSE "new"]
    /\ config = [j \in Jobs |-> NoCfg]
    /\ reg = [j \in Jobs |-> "none"]
    /\ next_run = [j \in Jobs |-> 0]
    /\ nowl = [j \in Jobs |-> 0]
    /\ wake = [j \in Jobs |-> 0]
    /\ branch = [j \in Jobs |-> None]
    /\ start_time = [j \in Jobs |-> 0]
    /\ max_dur = [j \in Jobs |-> 0]
    /\ stop = [j \in Jobs |-> FALSE]
    /\ thr = [j \in Jobs |-> None]
    /\ leaked = [j \in Jobs |-> 0]
    /\ orphans = [j \in Jobs |-> 0]
    /\ terminated = [j \in Jobs |-> None]
    /\ nrCal = [j \in Jobs |-> FALSE]

NextDebug ==
    \/ Tick(MaxTime)
    \/ \E j \in task_files, how \in {"returned", "raised"} : BodyExit(j, how)
    \/ \E j \in task_files : LeakedExit(j)
    \/ \E j \in task_files : DebugTask(j)
    \/ \E j \in task_files : DebugStart(j)
    \/ \E j \in task_files : Poll(j)
    \/ \E j \in task_files : JoinEnd(j)
    \/ \E j \in task_files : DebugWait(j)

SpecDebug == InitDebug /\ [][NextDebug]_vars

\* The same process started with a clean tasks folder; the job's terminate
\* file is created while it runs.
InitDebugClean ==
    /\ InitDebug
    /\ ~allMarker
    /\ \A j \in Jobs : ~marker[j]

NextDebugMarker ==
    \/ NextDebug
    \/ \E j \in task_files : CreateMarker(j)

SpecDebugMarker == InitDebugClean /\ [][NextDebugMarker]_vars

\* debug_runner.py before its call of run_task_debug: the name on the command
\* line is that of a job or of nothing in the tasks folder.
DebugNames == Jobs \cup {"ghost"}
InitDebugEntry ==
    /\ task_files = {}
    /\ now = 0
    /\ schedUp = FALSE
    /\ cur = None
    /\ allMarker \in BOOLEAN
    /\ marker = [j \in Jobs |-> FALSE]
    /\ disk \in [Jobs -> {V_timeout, V_off}]
    /\ entry = "idle"
    /\ bdisk = [j \in Jobs |-> Shipped]
    /\ loaded = [j \in Jobs |-> None]
    /\ used = [j \in Jobs |-> None]
    /\ pc = [j \in Jobs |-> "new"]
    /\ config = [j \in Jobs |-> NoCfg]
    /\ reg = [j \in Jobs |-> "none"]
    /\ next_run = [j \in Jobs |-> 0]
    /\ nowl = [j \in Jobs |-> 0]
    /\ wake = [j \in Jobs |-> 0]
    /\ branch = [j \in Jobs |-> None]
    /\ start_time = [j \in Jobs |-> 0]
    /\ max_dur = [j \in Jobs |-> 0]
    /\ stop = [j \in Jobs |-> FALSE]
    /\ thr = [j \in Jobs |-> None]
    /\ leaked = [j \in Jobs |-> 0]
    /\ orphans = [j \in Jobs |-> 0]
    /\ terminated = [j \in Jobs |-> None]
    /\ nrCal = [j \in Jobs |-> FALSE]

NextDebugEntry ==
    \/ \E n \in DebugNames : RunTaskDebug(n)
    \/ NextDebug

SpecDebugEntry == InitDebugEntry /\ [][NextDebugEntry]_vars

\* One job whose trigger file, at startup and after every edit, is one of
\* three versions none of which has schedule_on false with timeout_on true.
TornContents == {V_sched1, V_sched2, V_off}
InitTorn == InitOf({"alarm"}, TornContents)

NextTorn ==
    \/ Tick(MaxTime)
    \/ \E j \in task_files, f \in TornContents : ReloadTrigger(j, f)
    \/ \E j \in task_files, how \in {"returned", "raised"} : BodyExit(j, how)
    \/ \E j \in task_files : LeakedExit(j)
    \/ \E j \in task_files : LoadTriggerConfig(j)
    \/ \E j \in task_files : Register(j)
    \/ \E j \in task_files : CalcInit(j)
    \/ \E j \in task_files : Top(j)
    \/ \E j \in task_files : ChkTimeout(j)
    \/ \E j \in task_files : ChkSched(j)
    \/ \E j \in task_files : Poll(j)
    \/ \E j \in task_files : JoinEnd(j)
    \/ \E j \in task_files : PostSched(j)
    \/ \E j \in task_files : SetNextTimeout(j)
    \/ \E j \in task_files : CalcNext(j)
    \/ \E j \in task_files : ChkRepeat(j)
    \/ \E j \in task_files : WaitInterval(j)

SpecTorn == InitTorn /\ [][NextTorn]_vars

\* One job on the timeout trigger whose trigger file is rewritten with the
\* same object, with invalid JSON or with valid JSON that is no object.
ObjectContents == {V_timeout}
ObjectWrites == {V_timeout, Malformed, NotObject}
InitObject == InitOf({"alarm"}, ObjectContents)

NextObject ==
    \/ Tick(MaxTime)
    \/ \E j \in task_files, f \in ObjectWrites : ReloadTrigger(j, f)
    \/ \E j \in task_files, how \in {"returned", "raised"} : BodyExit(j, how)
    \/ \E j \in task_files : LeakedExit(j)
    \/ \E j \in task_files : OrphanExit(j)
    \/ \E j \in task_files : LoadTriggerConfig(j)
    \/ \E j \in task_files : Register(j)
    \/ \E j \in task_files : CalcInit(j)
    \/ \E j \in task_files : Top(j)
    \/ \E j \in task_files : ReadFaults(j)
    \/ \E j \in task_files : ChkTimeout(j)
    \/ \E j \in task_files : ChkSched(j)
    \/ \E j \in task_files : Poll(j)
    \/ \E j \in task_files : JoinEnd(j)
    \/ \E j \in task_files : ChkRepeat(j)
    \/ \E j \in task_files : WaitInterval(j)

SpecObject == InitObject /\ [][NextObject]_vars

\* Two jobs, one on the timeout trigger and one whose trigger file is in the
\* editor's form (its first calculate_next_run faults, so it restarts every
\* BackoffDelay seconds); the latter's file is written once more while the
\* process runs, and terminate files are created.  pyRTOS resumes every
\* generator whose wait is over, a segment of a generator runs to its next
\* yield, and the clock keeps running.
ResumeWrites == {V_timeout, Malformed}
InitResume ==
    /\ InitOf(Jobs, TwoContents)
    /\ \A j \in Jobs : disk[j] = V_new <=> j \in Edited

RunsResume ==
    \/ Tick(MaxTime)
    \/ \E j \in task_files : LoadTriggerConfig(j)
    \/ \E j \in task_files : Register(j)
    \/ \E j \in task_files : CalcInit(j)
    \/ \E j \in task_files : Top(j)
    \/ \E j \in task_files : ChkTimeout(j)
    \/ \E j \in task_files : ChkSched(j)
    \/ \E j \in task_files : Poll(j)
    \/ \E j \in task_files : JoinEnd(j)
    \/ \E j \in task_files : ChkRepeat(j)
    \/ \E j \in task_files : WaitInterval(j)

NextResume ==
    \/ RunsResume
    \/ \E j \in Edited, f \in ResumeWrites : disk[j] = V_new /\ ReloadTrigger(j, f)
    \/ \E j \in task_files : CreateMarker(j)
    \/ \E j \in task_files, how \in {"returned", "raised"} : BodyExit(j, how)

SpecResume == InitResume /\ [][NextResume]_vars /\ WF_vars(RunsResume)


\* ===================================================================== claims
\* A step starts an execution of job j: the monitored body thread comes alive.
StartsExec(j) == thr[j] # "alive" /\ thr'[j] = "alive"

\* C1: once the monitor reports external termination for a job, the job's
\* Supervisor ends (pc = "done") and stays ended, and no step starts another
\* execution of that job, whatever its config or the clock say.
C1_TerminatedIsFinal ==
    [][\A j \in Jobs :
         /\ (pc[j] = "join" /\ terminated[j] = "yes")
                => (pc'[j] \in {"join", "done"} /\ ~StartsExec(j))
         /\ pc[j] = "done" => (pc'[j] = "done" /\ ~StartsExec(j))]_vars

\* A terminated job whose trigger (timeout only) has long been due.
C1_Witness ==
    \E j \in Jobs :
        /\ pc[j] = "done" /\ schedUp /\ now = MaxTime
        /\ config[j] = V_timeout /\ ~nrCal[j] /\ next_run[j] + 1 < now

\* C2: at most one body thread of a job is alive at any time.
C2_OneBodyAtATime == \A j \in Jobs : ThreadsAlive(j) <= 1

\* C3: when the monitor sees max_duration exceeded and no marker, it sets
\* the stop signal and reports Completed (False); after the join Task.run
\* goes on in its loop, it does not end.
C3_MaxDurationCompletes ==
    [][\A j \in Jobs :
         /\ (Poll(j) /\ thr[j] = "alive" /\ ~MarkerSeen(j) /\ MaxDurExceeded(j))
                => (terminated'[j] = "no" /\ stop'[j] /\ pc'[j] = "join")
         /\ (pc[j] = "join" /\ terminated[j] = "no")
                => pc'[j] \in {"join", "post_sched", "chk_repeat"}]_vars

\* A new execution is being monitored after one that max_duration stopped
\* and whose body ignored the stop signal (no marker exists).
C3_Witness ==
    \E j \in Jobs :
        /\ pc[j] = "mon" /\ thr[j] = "alive" /\ leaked[j] > 0
        /\ ~MarkerSeen(j) /\ schedUp

\* C4: a body that raised sends the Supervisor into Backoff at the poll that
\* finds the thread dead.
C4_BodyFaultBacksOff ==
    [][\A j \in Jobs : (Poll(j) /\ thr[j] = "raised") => pc'[j] = "backoff"]_vars

\* C5: once every Supervisor has been constructed, no fault of a Supervisor
\* takes the scheduler (the process) down.
C5_FaultsContained ==
    (\A j \in task_files : reg[j] # "none") => schedUp

\* Job j's generator is in one of its waits.
Waiting(j) == pc[j] \in {"top", "mon", "backoff", "join"}

\* C6: while one Supervisor waits, another Supervisor whose own wait has
\* elapsed can be resumed.
C6_WaitsDoNotBlock ==
    \A j, k \in task_files :
        (j # k /\ schedUp /\ Waiting(j) /\ Resumable(k) /\ now >= wake[k])
            => CanResume(k)

BothOff(c) == c.schedule_on = FALSE /\ c.timeout_on = FALSE

\* C7: no execution starts while the job's current config has both flags
\* false, however the reloads interleave with the reads of lines 200 and 205.
C7_NeverStartsWhileBothOff ==
    [][\A j \in Jobs : StartsExec(j) => ~BothOff(config[j])]_vars

\* C8: an execution started by the schedule check under a calendar config
\* starts at a run time that has the time_of_day of the config in force.
C8_RunsAtNewTime ==
    [][\A j \in Jobs :
         (pc[j] = "chk_sched" /\ StartsExec(j) /\ nrCal[j]
            /\ config[j].schedule_on /\ config[j].fmt = "legacy")
                => TimeOfDay(next_run[j]) = config[j].time_of_day]_vars

\* C9: every change of a Supervisor's config makes it one whole version read
\* from the trigger file: never a mixture of the previous and the new one.
C9_WholeValueSwap ==
    [][\A j \in Jobs :
         /\ config'[j] \in {config[j], disk'[j]}
         /\ config'[j] \in Versions \cup {NoCfg}]_vars

\* A reload has replaced the config during a wait: next_run came from the
\* calendar but the config now in force has the schedule off.
C9_Witness ==
    \E j \in Jobs :
        /\ pc[j] = "top" /\ now < wake[j] /\ nrCal[j] /\ reg[j] = "cur"
        /\ ~config[j].schedule_on /\ config[j] = disk[j]

\* C10: a change of the trigger file to content that does not parse leaves
\* the Supervisor's config, the registry and every other part of the
\* Supervisor's state as they were.
C10_MalformedDiscarded ==
    [][\A j \in Jobs :
         (disk'[j] = Malformed /\ disk[j] # Malformed)
            => UNCHANGED <<supVars, schedUp, cur>>]_vars

\* The file is malformed and the registered Supervisor still waits with a
\* complete config.
C10_Witness ==
    \E j \in Jobs :
        /\ disk[j] = Malformed /\ config[j] \in Versions /\ reg[j] = "cur"
        /\ pc[j] = "top" /\ now < wake[j] /\ schedUp

\* C11: the monitor reports external termination at a poll, and only at a
\* poll, that finds the body thread alive and the job's own marker or the
\* global marker present (max_duration exceeded or not); the marker of
\* another job has no part in it.
C11_TerminatedIffMarkerAtPoll ==
    [][\A j \in Jobs :
         /\ (Poll(j) /\ thr[j] = "alive")
                => (terminated'[j] = "yes" <=> (marker[j] \/ allMarker))
         /\ (terminated'[j] = "yes" /\ terminated[j] # "yes")
                => (Poll(j) /\ thr[j] = "alive")]_vars

\* One job has been terminated by its own marker; after that a poll of the
\* other job, with that marker still present, found max_duration exceeded
\* and reported Completed.
C11_Witness ==
    \E j, k \in Jobs :
        /\ j # k /\ pc[k] = "done" /\ marker[k] /\ ~marker[j] /\ ~allMarker
        /\ pc[j] = "join" /\ terminated[j] = "no" /\ thr[j] = "alive"

\* Job j's execution is being monitored and no stop condition has been
\* detected yet.
Monitored(j) == pc[j] \in {"poll", "mon"}

\* C12: an execution whose body thread runs while the job's marker or the
\* global marker exists ends as ExternallyTerminated: the thread does not
\* end unsignalled, which would make the next poll find it dead and report
\* Completed.
C12_MarkerWhileRunningTerminates ==
    [][\A j \in Jobs :
         (Monitored(j) /\ thr[j] = "alive" /\ MarkerSeen(j))
            => (thr'[j] = "alive" /\ (pc'[j] # pc[j] => terminated'[j] = "yes"))]_vars
\* C13: the stop signal is clear when a body thread starts, and it is not
\* cleared while a body thread that was signalled through it is still alive
\* (such a thread is one the monitor gave up on after the grace period).
C13_StopStaysSetWhileSignalledAlive ==
    [][\A j \in Jobs :
         /\ StartsExec(j) => ~stop'[j]
         /\ (stop[j] /\ leaked[j] > 0 /\ leaked'[j] > 0) => stop'[j]]_vars
\* C14: while the monitor waits for a signalled body thread, the stop signal
\* is set and the wait is never longer than the grace period; once the
\* grace period is over the monitor returns, thread alive or not.
C14_GracePeriodBounded ==
    \A j \in Jobs :
        pc[j] = "join" =>
            /\ stop[j]
            /\ now <= wake[j] /\ wake[j] <= now + GracePeriod
            /\ (Holds(j) /\ now >= wake[j]) => ENABLED JoinEnd(j)

\* The monitor has just returned Completed from a join that ran out with the
\* body thread still alive, and Task.run goes on.
C14_Witness ==
    \E j \in Jobs :
        /\ pc[j] \in {"post_sched", "chk_repeat"} /\ leaked[j] > 0
        /\ thr[j] = None /\ stop[j] /\ Holds(j)
\* C15: every entry into Backoff sets the same delay of BackoffDelay
\* seconds; Backoff is left only after the delay, by constructing a Task
\* whose config is the content of the trigger file at that moment and whose
\* stop signal is clear, and the run that follows computes next_run anew
\* from that config and the current time.
C15_FixedBackoffFreshTask ==
    [][\A j \in Jobs :
         /\ (pc[j] # "backoff" /\ pc'[j] = "backoff")
                => wake'[j] = now + BackoffDelay
         /\ (pc[j] = "backoff" /\ pc'[j] # "backoff")
                => /\ now >= wake[j]
                   /\ pc'[j] = "register"
                   /\ config'[j] = disk[j] /\ ~stop'[j] /\ leaked'[j] = 0
         /\ (pc[j] = "calc_init" /\ pc'[j] = "top")
                => next_run'[j] = calculate_next_run(config[j], now)]_vars

\* The Task built after a backoff that began at time BackoffDelay (the
\* delay is the same as for a fault at time 0) is about to compute next_run.
C15_Witness ==
    \E j \in Jobs :
        /\ pc[j] = "calc_init" /\ wake[j] = 2 * BackoffDelay /\ now = wake[j]
        /\ config[j] = disk[j] /\ ~stop[j] /\ reg[j] = "cur"
\* The Task being constructed or started for job j follows a backoff: wake
\* still holds the end of the backoff delay (it is 0 at the first start).
Restarted(j) == pc[j] \in {"register", "calc_init"} /\ wake[j] >= BackoffDelay

\* C16: the Task started after a backoff is due at once: the next_run it
\* computes is not in the future, so that its first pass starts an execution
\* instead of waiting for a later trigger.
C16_RestartRunsAtOnce ==
    [][\A j \in Jobs :
         (Restarted(j) /\ pc[j] = "calc_init" /\ pc'[j] = "top")
            => next_run'[j] <= now]_vars
BothOn(c) == c.schedule_on /\ c.timeout_on
\* Timestamp t is an occurrence of the calendar schedule of config c.
Matches(c, t) == TimeOfDay(t) = c.time_of_day /\ WeekdayOf(t) \in c.days_of_week
\* Job j's generator takes a step.
Steps(j) == pc'[j] # pc[j]

\* C17: with schedule_on and timeout_on both true and the trigger file not
\* edited, an execution starts only when next_run has been reached, the
\* first next_run being a calendar occurrence; after an execution next_run
\* becomes the pass's now plus timeout_interval, the Supervisor waits
\* timeout_interval, and the schedule check that follows starts the next
\* execution without waiting for a calendar occurrence.
C17_CalendarFirstThenTimeout ==
    [][\A j \in Jobs : BothOn(config[j]) =>
         /\ StartsExec(j)
                => /\ pc[j] = "chk_sched" /\ next_run[j] <= nowl[j] /\ nowl[j] = now
                   /\ nrCal[j] => Matches(config[j], next_run[j])
         /\ (pc[j] = "post_sched" /\ Steps(j)) => pc'[j] = "set_next_timeout"
         /\ (pc[j] = "set_next_timeout" /\ Steps(j))
                => /\ next_run'[j] = nowl[j] + config[j].timeout_interval
                   /\ ~nrCal'[j] /\ pc'[j] = "chk_repeat"
         /\ (pc[j] = "chk_repeat" /\ Steps(j)) => pc'[j] = "wait_interval"
         /\ (pc[j] = "wait_interval" /\ Steps(j))
                => (pc'[j] = "top" /\ wake'[j] = now + config[j].timeout_interval)
         /\ (pc[j] = "chk_sched" /\ ~nrCal[j] /\ Steps(j)) => StartsExec(j)]_vars

\* Under a config with both flags true an execution started by the timeout
\* rule (next_run no longer a calendar time) is being monitored.
C17_Witness ==
    \E j \in Jobs :
        /\ BothOn(config[j]) /\ ~nrCal[j] /\ branch[j] = "sched"
        /\ pc[j] = "mon" /\ thr[j] = "alive"
        /\ start_time[j] > config[j].time_of_day
\* C18: with the trigger file not edited, a completed execution is followed
\* by a wait: with timeout_on the Supervisor yields for timeout_interval
\* (at least one second) from the completion; without it next_run is
\* recomputed by calculate_next_run to a time after now, later than the
\* occurrence just served; the generator is resumed only when its wait is
\* over, and an execution under an enabled schedule starts only when
\* next_run has been reached.
C18_WaitsAfterCompletion ==
    [][\A j \in Jobs :
         /\ (pc[j] = "chk_repeat" /\ Steps(j))
                => pc'[j] = IF config[j].timeout_on THEN "wait_interval" ELSE "top"
         /\ (pc[j] = "wait_interval" /\ Steps(j))
                => /\ pc'[j] = "top"
                   /\ wake'[j] = now + config[j].timeout_interval
                   /\ wake'[j] > now
         /\ (pc[j] = "calc_next" /\ pc'[j] = "chk_repeat")
                => /\ next_run'[j] = calculate_next_run(config[j], now)
                   /\ next_run'[j] > now /\ next_run'[j] > next_run[j]
         /\ (pc[j] = "top" /\ Steps(j)) => now >= wake[j]
         /\ StartsExec(j)
                => /\ pc[j] = "chk_sched" /\ now >= wake[j]
                   /\ config[j].schedule_on => next_run[j] <= now]_vars

\* An execution has completed (its body thread outlived the grace period)
\* and the Supervisor has just begun its timeout_interval wait.
C18_Witness ==
    \E j \in Jobs :
        /\ pc[j] = "top" /\ leaked[j] > 0 /\ config[j].timeout_on
        /\ wake[j] = now + config[j].timeout_interval
\* C19: a pass that finds both flags false yields for IdlePoll seconds and
\* comes back to the top of the loop, where the config is read again; and
\* once a reload has enabled a trigger (with at least one idle poll interval
\* left before the clock horizon) the job's body eventually runs, in the
\* same process.
C19_IdlePollPicksUpEnable ==
    /\ [][\A j \in Jobs :
            (pc[j] = "chk_timeout" /\ Steps(j) /\ BothOff(config[j]))
                => (pc'[j] = "top" /\ wake'[j] = now + IdlePoll /\ ~StartsExec(j))]_vars
    /\ \A j \in Jobs :
            (reg[j] = "cur" /\ ~BothOff(config[j]) /\ now + IdlePoll <= MaxTime)
                ~> (thr[j] = "alive" /\ schedUp)

\* The first execution of a job that idle-polled from the start (next_run
\* is still the one of the first calculate_next_run): it began when the idle
\* poll interval was over, under the reloaded config.
C19_Witness ==
    \E j \in Jobs :
        /\ pc[j] = "mon" /\ thr[j] = "alive" /\ start_time[j] = IdlePoll
        /\ config[j] = V_sched2 /\ config[j] = disk[j] /\ next_run[j] = 0

\* The occurrences of config c's schedule from timestamp t on, over
\* HorizonDays days, and the least element of a non-empty set of timestamps.
Occurrences(c, t) == {u \in t..(t + HorizonDays * TicksPerDay) : Matches(c, u)}
Least(S) == CHOOSE u \in S : \A v \in S : u <= v
\* Job j's first calculate_next_run under an enabled calendar schedule with
\* a non-empty day set has returned.
Evaluated(j) ==
    /\ pc[j] = "calc_init" /\ pc'[j] = "top"
    /\ config[j].schedule_on /\ config[j].fmt = "legacy"
    /\ config[j].days_of_week # {}

\* C20 (as claimed): calculate_next_run returns the least occurrence at or
\* after now, now itself included.
C20_LeastNotBeforeNow ==
    [][\A j \in Jobs :
         Evaluated(j) => next_run'[j] = Least(Occurrences(config[j], now))]_vars

\* C20 (amended): calculate_next_run returns the least occurrence strictly
\* after now: when now itself is an occurrence, it returns the next one.
C20_LeastAfterNow ==
    [][\A j \in Jobs :
         Evaluated(j) => next_run'[j] = Least(Occurrences(config[j], now + 1))]_vars

\* The process started exactly at an occurrence of the schedule and next_run
\* is a later one.
C20_Witness ==
    \E j \in Jobs :
        /\ pc[j] = "top" /\ nrCal[j] /\ config[j] \in EvalContents
        /\ Matches(config[j], now) /\ next_run[j] > now
        /\ Matches(config[j], next_run[j])
\* C21: with schedule_on false calculate_next_run returns the current time,
\* whatever the form of the file, its time of day and its days.
C21_ScheduleOffIsNow ==
    [][\A j \in Jobs :
         (pc[j] = "calc_init" /\ Steps(j) /\ ~config[j].schedule_on)
            => (pc'[j] = "top" /\ next_run'[j] = now /\ wake'[j] = now)]_vars

\* Started in mid-week with the schedule off and a file that carries no
\* usable calendar fields, Task.run has taken now as its next_run.
C21_Witness ==
    \E j \in Jobs :
        /\ pc[j] = "top" /\ wake[j] = now /\ now > TicksPerDay
        /\ ~config[j].schedule_on /\ config[j].fmt = "new"
        /\ config[j].days_of_week = {} /\ next_run[j] = now
\* C22: with the schedule on and an empty set of days calculate_next_run
\* comes back without a fault, and the Supervisor goes on to its loop (where
\* it only polls): it does not enter Backoff.
C22_EmptyDaysNoFault ==
    [][\A j \in Jobs :
         (pc[j] = "calc_init" /\ Steps(j) /\ config[j].schedule_on
            /\ config[j].fmt = "legacy" /\ config[j].days_of_week = {})
                => pc'[j] = "top"]_vars

\* C23: with the schedule on, a trigger file in either form (the legacy pair
\* or the editor's list of pairs) with days to match gets a next run: the
\* first calculate_next_run does not fault.
C23_BothFormsAccepted ==
    [][\A j \in Jobs :
         (pc[j] = "calc_init" /\ Steps(j) /\ config[j].schedule_on
            /\ config[j].fmt \in EvalForms /\ config[j].days_of_week # {})
                => (pc'[j] = "top" /\ next_run'[j] > now)]_vars

\* A step in which the Config Reloader handled job j's trigger file: the
\* file has a new content, or the config changed while Task.run stood still.
TriggerReloadStep(j) ==
    disk'[j] # disk[j] \/ (config'[j] # config[j] /\ pc'[j] = pc[j])

\* C24: a reload of a trigger file changes, of everything the Supervisor and
\* the body hold, only the config; a reload of a behaviour file changes
\* nothing of them at all, an execution in progress included.
C24_ReloadsTouchOnlyConfig ==
    [][\A j \in Jobs :
         /\ TriggerReloadStep(j)
               => /\ UNCHANGED <<pc, reg, next_run, nowl, wake, branch, start_time,
                                 max_dur, stop, thr, leaked, orphans, terminated,
                                 nrCal, schedUp, cur, loaded, used>>
                  /\ \A k \in Jobs \ {j} : config'[k] = config[k]
         /\ bdisk'[j] # bdisk[j]
               => UNCHANGED <<supVars, schedUp, cur, loaded, used>>]_vars

\* An execution is in progress whose body has loaded its values; since it
\* started both the trigger file and the behaviour file have been reloaded,
\* and the body still runs with what it loaded.
C24_Witness ==
    \E j \in Jobs :
        /\ thr[j] = "alive" /\ pc[j] = "mon" /\ ~stop[j]
        /\ used[j] # None /\ bdisk[j] # used[j]
        /\ reg[j] = "cur" /\ config[j] = disk[j]
        /\ max_dur[j] # config[j].max_duration

\* C25: the values the body of an execution takes up are the ones in the
\* job's behaviour file at that time, in the first execution and in every
\* later one.
C25_UsesValuesOnDisk ==
    [][\A j \in Jobs :
         (used[j] = None /\ used'[j] # None) => used'[j] = bdisk[j]]_vars

\* C26: a write to the trigger file of a job that has no registry entry
\* creates no entry and no Supervisor and changes no config.
C26_UnknownJobIgnored ==
    [][\A j \in Jobs :
         (reg[j] = "none" /\ disk'[j] # disk[j])
            => UNCHANGED <<reg, config, task_files, supVars, schedUp, cur>>]_vars

\* A trigger file was written for a job that was not found at startup while
\* a job that was found is executing: the former has no entry and no config.
C26_Witness ==
    \E j \in Jobs \ task_files :
        /\ disk[j] \in ReloadContents /\ reg[j] = "none"
        /\ config[j] = NoCfg /\ pc[j] = "new"
        /\ \E k \in task_files : reg[k] = "cur" /\ thr[k] = "alive"

\* C27: terminate files are removed before any Supervisor starts, whichever
\* entry point started the process: in a process in which nobody creates a
\* terminate file, no monitor stops an execution because of one.
C27_StaleMarkerStopsNothing ==
    \A j \in Jobs : terminated[j] # "yes"

\* C28: for a job on the timeout trigger with timeout_interval 2 (schedule
\* off), the pass of the monitor that follows the appearance of a terminate
\* file ends the Supervisor: it reports the termination and goes to the join
\* from which Task.run returns.
C28_PollAfterMarkerStops ==
    [][\A j \in Jobs :
         (Poll(j) /\ MarkerSeen(j) /\ ~config[j].schedule_on
            /\ config[j].timeout_on /\ config[j].timeout_interval = 2)
               => (pc'[j] = "join" /\ terminated'[j] = "yes")]_vars

\* C29: a job name that has a registry entry keeps one through faults,
\* restarts, termination and the end of the scheduler; in particular a
\* lookup made while the job is restarting finds an entry.
C29_RegistryOnlyGrows ==
    [][\A j \in Jobs : reg[j] # "none" => reg'[j] # "none"]_vars

\* A restart is under way after a fault (the new Task is built but not yet
\* registered) and the lookup still finds the previous Task.
C29_Witness ==
    \E j \in Jobs : pc[j] = "register" /\ wake[j] >= BackoffDelay /\ reg[j] = "old"

\* Job j's generator has yielded inside Task.run (at the top of its loop or
\* in the monitor) and the wait is over, early enough for a join of another
\* job to end before the clock horizon.
WaitOver(j) ==
    /\ j \in task_files /\ pc[j] \in {"top", "mon"} /\ now >= wake[j]
    /\ now + GracePeriod <= MaxTime

\* C30: a Supervisor suspended at a yield whose wait is over is eventually
\* resumed (it gets the scheduler thread, or it has been through a pass and
\* waits again), whatever the other job does.
C30_YieldedIsResumed ==
    \A j \in Jobs : WaitOver(j) ~> (cur = j \/ ~Resumable(j) \/ now < wake[j])

\* C31: in debug mode, once the monitor has seen the job's terminate file and
\* signalled the body, the job is over: Task.run does not go on to another
\* execution.
C31_DebugMarkerStops ==
    [][\A j \in Jobs :
         (JoinEnd(j) /\ branch[j] = "debug" /\ terminated[j] = "yes")
            => pc'[j] = "done"]_vars

\* C32: a debug run asked for a name that no job directory has fails with an
\* error to the caller; no generator is added, no Task is built or
\* registered and pyRTOS is not started.
C32_UnknownDebugNameFails ==
    [][\A n \in DebugNames \ Jobs :
         RunTaskDebug(n)
            => /\ entry' = "failed" /\ ~schedUp' /\ task_files' = {}
               /\ UNCHANGED <<pc, reg, config, thr>>]_vars

\* The call has failed: nothing was started.
C32_Witness ==
    /\ entry = "failed" /\ ~schedUp /\ task_files = {}
    /\ \A j \in Jobs : pc[j] = "new" /\ reg[j] = "none" /\ thr[j] = None

\* C33: a pass of the loop of Task.run acts on one version of the config.
\* When no version the trigger file ever has combines schedule_on false with
\* timeout_on true, no execution starts through the branch of that
\* combination (the else of line 205), wherever the reloads fall.
C33_NoBranchOfNeitherVersion ==
    [][\A j \in Jobs :
         (StartsExec(j) /\ config[j] \in TornContents) => branch'[j] # "timeout"]_vars

\* C34: with trigger files that always parse, the config of a registered
\* Task is the content of its trigger file, also when a write came while
\* the Task was being built.
C34_ConfigEqualsDisk ==
    \A j \in task_files : reg[j] = "cur" => config[j] = disk[j]

\* Task.__init__ has returned for the Task that drives job j now.
Constructed(j) == pc[j] \notin {"new", "backoff", "register", "dbg_new"}

\* C35: once the Task that drives a job has been constructed, the registry
\* entry of the job refers to it, after a crash-restart too, and a trigger
\* file that parses, written from then on, becomes the config of that Task.
C35_EntryIsLiveTask ==
    /\ [](\A j \in task_files : Constructed(j) => reg[j] = "cur")
    /\ [][\A j \in task_files :
            (Constructed(j) /\ disk'[j] # disk[j] /\ Parses(disk'[j]))
                => config'[j] = disk'[j]]_vars

\* After a fault and the backoff the new Task has registered, with a thread
\* of the discarded Task still alive; its config is the file's content.
C35_Witness ==
    \E j \in Jobs :
        /\ pc[j] = "calc_init" /\ wake[j] >= BackoffDelay /\ reg[j] = "cur"
        /\ config[j] = disk[j] /\ config[j] = V_sched2 /\ orphans[j] > 0

\* C36: a job that started with its schedule off and whose schedule a reload
\* has switched on does not start an execution through the schedule branch
\* before the first timestamp that matches the schedule now in force: at
\* such a start a matching timestamp has been reached since startup.
C36_NotBeforeFirstMatch ==
    [][\A j \in Jobs :
         (StartsExec(j) /\ branch'[j] = "sched" /\ config[j].schedule_on
            /\ config[j].fmt = "legacy")
               => \E u \in 0..now : Matches(config[j], u)]_vars

\* C37: a trigger file whose reload ends in a logged error (invalid JSON, or
\* valid JSON that is no object) leaves every config as it was.
C37_FailedReloadKeepsConfig ==
    [][\A j \in Jobs :
         (disk'[j] # disk[j] /\ disk'[j] \in {Malformed, NotObject})
            => config' = config]_vars

\* C38: every live body thread of a job observes the stop event of the
\* job's current Task: no thread that holds the event of a discarded Task
\* is alive.
C38_NoThreadOfDiscardedTask ==
    \A j \in Jobs : orphans[j] = 0

\* C39: the stop event of a job goes from clear to set only in a pass of
\* that job's monitor that finds the thread alive and a marker present or
\* more than max_duration elapsed; a pass that finds the thread ended meets
\* the event clear, leaves it clear and lets Task.run go on (Completed).
C39_OnlyMonitorSetsStop ==
    [][\A j \in Jobs :
         /\ (~stop[j] /\ stop'[j])
                => /\ Poll(j) /\ thr[j] = "alive"
                   /\ (MarkerSeen(j) \/ now - start_time[j] > max_dur[j])
         /\ (Poll(j) /\ thr[j] # "alive")
                => /\ ~stop[j] /\ ~stop'[j]
                   /\ pc'[j] = AfterExec(branch[j])
                   /\ terminated'[j] # "yes"]_vars

\* One job's body has returned by itself and its Task.run goes on with the
\* event clear, while the other job's event was set by its monitor after
\* max_duration (no marker exists).
C39_Witness ==
    \E j, k \in Jobs :
        /\ j # k /\ schedUp /\ ~allMarker /\ ~marker[j] /\ ~marker[k]
        /\ pc[j] = "chk_repeat" /\ ~stop[j] /\ leaked[j] = 0
        /\ stop[k] /\ pc[k] \in {"top", "mon"}

\* C40: an execution started with max_duration absent or 0 is never stopped
\* for the time it has taken: a pass of its monitor that finds the thread
\* alive and no marker leaves the stop event clear and yields for the next
\* pass.
C40_NoLimitNeverTimesOut ==
    [][\A j \in Jobs :
         (Poll(j) /\ thr[j] = "alive" /\ max_dur[j] = 0 /\ ~MarkerSeen(j))
            => /\ ~stop'[j]
               /\ pc'[j] = "mon"
               /\ thr'[j] = "alive"]_vars

\* An execution without a limit is still monitored, its event clear, two or
\* more seconds after its start.
C40_Witness ==
    \E j \in Jobs :
        /\ pc[j] = "mon" /\ thr[j] = "alive" /\ schedUp
        /\ max_dur[j] = 0 /\ config[j].max_duration = 0
        /\ now - start_time[j] >= 2
        /\ ~stop[j] /\ ~MarkerSeen(j)

====
